---- MODULE Spec2Model ----
(***************************************************************************)
(* A model of the Vineapple client (furf/vineapple): the session fields,   *)
(* the request pipeline with its identifier repair and envelope unwrap,    *)
(* and login / logout.  The later snapshot (src/unnamed/part_000) is the   *)
(* program modelled; the earlier one (src/lib/vineapple.js) is modelled    *)
(* beside it under lib_ names.  Text is modelled as sequences of           *)
(* one-character strings so that the regular-expression rewrite and        *)
(* JSON.parse are computed character by character.  The endpoint methods   *)
(* with optional options, and sends followed as objects with identities,   *)
(* have specifications of their own over the same variables.               *)
(***************************************************************************)
EXTENDS Integers, Sequences, FiniteSets, TLC

(***************************************************************************)
(* JavaScript values                                                       *)
(***************************************************************************)
Undefined == [t |-> "undefined"]
Null == [t |-> "null"]
Str(s) == [t |-> "str", s |-> s]
Bool(b) == [t |-> "bool", b |-> b]
\* A number read from digits: exact tells whether a double holds it exactly.
Num(d, e) == [t |-> "num", digits |-> d, exact |-> e]
Obj(f) == [t |-> "obj", f |-> f]
Arr(e) == [t |-> "arr", e |-> e]
\* The client object itself (the value `this`).
Client == [t |-> "client"]
EmptyObj == Obj([n \in {} |-> Undefined])

\* ToBoolean of the values the model holds.
Truthy(v) ==
  CASE v.t = "undefined" -> FALSE
    [] v.t = "null" -> FALSE
    [] v.t = "bool" -> v.b
    [] v.t = "str" -> v.s # <<>>
    [] v.t = "num" -> \E i \in 1..Len(v.digits) : v.digits[i] # "0"
    [] OTHER -> TRUE

\* Property read v[name]; reading a property of undefined or null throws,
\* which callers test with Throws first.
Throws(v) == v.t \in {"undefined", "null"}
Get(v, name) ==
  IF v.t = "obj" /\ name \in DOMAIN v.f THEN v.f[name] ELSE Undefined

\* a && a.name
AndGet(v, name) == IF Truthy(v) THEN Get(v, name) ELSE v

(***************************************************************************)
(* Text                                                                    *)
(***************************************************************************)
Digits == {"0", "1", "2", "3", "4", "5", "6", "7", "8", "9"}
Whitespace == {" ", "\t", "\n"}
Quote == <<"\"">>

HasAt(s, i, w) ==
  /\ i >= 1
  /\ i + Len(w) - 1 <= Len(s)
  /\ SubSeq(s, i, i + Len(w) - 1) = w

\* The first position at or after i whose character is not in C.
SkipWhile(s, i, C) ==
  CHOOSE j \in i..(Len(s) + 1) :
    /\ \A k \in i..(j - 1) : s[k] \in C
    /\ j = Len(s) + 1 \/ s[j] \notin C

N_comment == <<"c", "o", "m", "m", "e", "n", "t">>
N_like == <<"l", "i", "k", "e">>
N_post == <<"p", "o", "s", "t">>
N_tag == <<"t", "a", "g">>
N_user == <<"u", "s", "e", "r">>
N_venue == <<"v", "e", "n", "u", "e">>

\* "(?:(?:(?:comment|like|post|tag|user|venue)I)|i)d":
VINE_ID_KEYS ==
  LET prefixes == {N_comment, N_like, N_post, N_tag, N_user, N_venue}
      alts == {p \o <<"I">> : p \in prefixes} \cup {<<"i">>}
  IN {Quote \o a \o <<"d">> \o Quote \o <<":">> : a \in alts}

NoMatch == [ok |-> FALSE, g1 |-> <<>>, g2 |-> <<>>, g3 |-> <<>>, end |-> 0]

\* One attempt of VINE_ID_SEARCH at position i: the key, \s*, \d*, (,)?
\* Every quantifier is greedy and nothing after it can fail, so the match is
\* the longest one.
VINE_ID_SEARCH(s, i) ==
  IF \E k \in VINE_ID_KEYS : HasAt(s, i, k)
  THEN LET k == CHOOSE k \in VINE_ID_KEYS : HasAt(s, i, k)
           a == i + Len(k)
           b == SkipWhile(s, a, Whitespace)
           c == SkipWhile(s, b, Digits)
           d == IF c <= Len(s) /\ s[c] = "," THEN c + 1 ELSE c
       IN [ok |-> TRUE, g1 |-> SubSeq(s, i, b - 1), g2 |-> SubSeq(s, b, c - 1),
           g3 |-> SubSeq(s, c, d - 1), end |-> d]
  ELSE NoMatch

\* The replacement without its third group.
ReplaceWithoutComma(m) == m.g1 \o Quote \o m.g2 \o Quote

\* '$1"$2"$3'
VINE_ID_REPLACE(m) == m.g1 \o Quote \o m.g2 \o Quote \o m.g3

\* String.prototype.replace with a global regular expression: matches are
\* taken left to right and do not overlap.
RECURSIVE ReplaceFrom(_, _)
ReplaceFrom(s, i) ==
  IF i > Len(s) THEN <<>>
  ELSE LET m == VINE_ID_SEARCH(s, i)
       IN IF m.ok THEN VINE_ID_REPLACE(m) \o ReplaceFrom(s, m.end)
          ELSE <<s[i]>> \o ReplaceFrom(s, i + 1)

Repair(s) == ReplaceFrom(s, 1)

(***************************************************************************)
(* JSON.parse, for texts made of objects, arrays, strings without escapes, *)
(* unsigned integers, null, true and false.                                *)
(***************************************************************************)
\* 2^53: the integers up to it are the ones a double holds exactly.
TwoTo53 == <<"9", "0", "0", "7", "1", "9", "9", "2", "5", "4", "7", "4", "0", "9", "9", "2">>

DigitVal(c) ==
  CASE c = "0" -> 0 [] c = "1" -> 1 [] c = "2" -> 2 [] c = "3" -> 3
    [] c = "4" -> 4 [] c = "5" -> 5 [] c = "6" -> 6 [] c = "7" -> 7
    [] c = "8" -> 8 [] c = "9" -> 9

\* d <= e for digit sequences without leading zeros.
DigitsLeq(d, e) ==
  \/ Len(d) < Len(e)
  \/ /\ Len(d) = Len(e)
     /\ \/ d = e
        \/ \E i \in 1..Len(d) :
             /\ SubSeq(d, 1, i - 1) = SubSeq(e, 1, i - 1)
             /\ DigitVal(d[i]) < DigitVal(e[i])

\* The Number a digit run parses to.  Above 2^53 a double is in general not
\* the integer written; the model records that the value is no longer exact.
NumberOf(d) == Num(d, DigitsLeq(d, TwoTo53))

Fail == [ok |-> FALSE, v |-> Undefined, next |-> 0]
Ok(v, next) == [ok |-> TRUE, v |-> v, next |-> next]

ParseString(s, i) ==
  IF \E j \in (i + 1)..Len(s) : s[j] = "\""
  THEN LET j == SkipWhile(s, i + 1, {s[k] : k \in 1..Len(s)} \ {"\""})
       IN Ok(Str(SubSeq(s, i + 1, j - 1)), j + 1)
  ELSE Fail

ParseNumber(s, i) ==
  LET j == IF s[i] = "0" THEN i + 1 ELSE SkipWhile(s, i, Digits)
  IN Ok(NumberOf(SubSeq(s, i, j - 1)), j)

ParseLiteral(s, i) ==
  CASE HasAt(s, i, <<"n", "u", "l", "l">>) -> Ok(Null, i + 4)
    [] HasAt(s, i, <<"t", "r", "u", "e">>) -> Ok(Bool(TRUE), i + 4)
    [] HasAt(s, i, <<"f", "a", "l", "s", "e">>) -> Ok(Bool(FALSE), i + 5)
    [] OTHER -> Fail

Put(f, k, v) == [n \in DOMAIN f \cup {k} |-> IF n = k THEN v ELSE f[n]]

RECURSIVE ParseValue(_, _), ParseMembers(_, _, _), ParseElements(_, _, _)

\* A value starting at the non-blank position i.
ParseValue(s, i) ==
  IF i > Len(s) THEN Fail
  ELSE CASE s[i] = "{" ->
              LET j == SkipWhile(s, i + 1, Whitespace)
              IN IF j <= Len(s) /\ s[j] = "}" THEN Ok(EmptyObj, j + 1)
                 ELSE ParseMembers(s, j, EmptyObj.f)
         [] s[i] = "[" ->
              LET j == SkipWhile(s, i + 1, Whitespace)
              IN IF j <= Len(s) /\ s[j] = "]" THEN Ok(Arr(<<>>), j + 1)
                 ELSE ParseElements(s, j, <<>>)
         [] s[i] = "\"" -> ParseString(s, i)
         [] s[i] \in Digits -> ParseNumber(s, i)
         [] OTHER -> ParseLiteral(s, i)

\* The members of an object from position i (a key is expected there).
ParseMembers(s, i, acc) ==
  IF i > Len(s) \/ s[i] # "\"" THEN Fail
  ELSE LET k == ParseString(s, i)
           c == IF k.ok THEN SkipWhile(s, k.next, Whitespace) ELSE 0
       IN IF ~k.ok \/ c > Len(s) \/ s[c] # ":" THEN Fail
          ELSE LET v == ParseValue(s, SkipWhile(s, c + 1, Whitespace))
                   e == IF v.ok THEN SkipWhile(s, v.next, Whitespace) ELSE 0
               IN IF ~v.ok \/ e > Len(s) THEN Fail
                  ELSE IF s[e] = "}" THEN Ok(Obj(Put(acc, k.v.s, v.v)), e + 1)
                  ELSE IF s[e] = ","
                       THEN ParseMembers(s, SkipWhile(s, e + 1, Whitespace),
                                         Put(acc, k.v.s, v.v))
                  ELSE Fail

\* The elements of an array from position i (a value is expected there).
ParseElements(s, i, acc) ==
  LET v == ParseValue(s, i)
      e == IF v.ok THEN SkipWhile(s, v.next, Whitespace) ELSE 0
  IN IF ~v.ok \/ e > Len(s) THEN Fail
     ELSE IF s[e] = "]" THEN Ok(Arr(Append(acc, v.v)), e + 1)
     ELSE IF s[e] = ","
          THEN ParseElements(s, SkipWhile(s, e + 1, Whitespace), Append(acc, v.v))
     ELSE Fail

\* JSON.parse(text): the value, or ok = FALSE where it throws SyntaxError.
JSONparse(s) ==
  LET r == ParseValue(s, SkipWhile(s, 1, Whitespace))
  IN IF r.ok /\ SkipWhile(s, r.next, Whitespace) = Len(s) + 1
     THEN [ok |-> TRUE, v |-> r.v]
     ELSE [ok |-> FALSE, v |-> Undefined]

(***************************************************************************)
(* Errors                                                                  *)
(***************************************************************************)
Err(name, message) == [t |-> "error", name |-> name, message |-> message]

\* String(v), as the Error constructor applies it to its argument.
StringOf(v) ==
  CASE v.t = "str" -> v.s
    [] v.t = "error" -> <<v.name, ": ">> \o v.message
    [] v.t = "null" -> <<"null">>
    [] v.t = "undefined" -> <<"undefined">>
    [] v.t = "bool" -> IF v.b THEN <<"true">> ELSE <<"false">>
    [] v.t = "num" -> v.digits
    [] OTHER -> <<"[object Object]">>

\* new Error(x)
NewError(x) == Err("Error", StringOf(x))

\* What the engine throws: a property read of undefined, a malformed text.
TypeError == Err("TypeError", <<"Cannot read property of undefined">>)
SyntaxError == Err("SyntaxError", <<"Unexpected token">>)

(***************************************************************************)
(* Names and program constants                                             *)
(***************************************************************************)
N_key == <<"k", "e", "y">>
N_userId == <<"u", "s", "e", "r", "I", "d">>
N_username == <<"u", "s", "e", "r", "n", "a", "m", "e">>
N_data == <<"d", "a", "t", "a">>
N_error == <<"e", "r", "r", "o", "r">>

N_url == <<"url">>
N_method == <<"method">>
N_headers == <<"headers">>
N_form == <<"form">>
N_qs == <<"qs">>

H_session == <<"vine-session-id">>
H_client == <<"X-Vine-Client">>
H_language == <<"Accept-Language">>
H_agent == <<"User-Agent">>

API_ORIGIN == <<"https://api.vineapp.com/">>
ACCEPT_LANGUAGE == <<"en;q=1, fr;q=0.9, de;q=0.8, ja;q=0.7, nl;q=0.6, it;q=0.5">>
USER_AGENT == <<"iphone/1.3.1 (iPhone; iOS 6.1.3; Scale/2.00)">>
X_VINE_CLIENT == <<"ios/1.3.1">>

MissingUsername == <<"Invalid credentials. Missing username.">>
MissingPassword == <<"Invalid credentials. Missing password.">>

\* An object literal from a set of <<name, value>> pairs with distinct names.
Lit(pairs) ==
  Obj([n \in {p[1] : p \in pairs} |-> (CHOOSE p \in pairs : p[1] = n)[2]])

(***************************************************************************)
(* The request pipeline                                                    *)
(***************************************************************************)
\* _.defaults(dst, src): src's properties fill those of dst that resolve to
\* undefined; a source that is not an object contributes nothing.
Defaults(dst, src) ==
  IF src.t # "obj" THEN dst
  ELSE Obj([n \in DOMAIN dst.f \cup DOMAIN src.f |->
             IF n \in DOMAIN dst.f /\ (dst.f[n] # Undefined \/ n \notin DOMAIN src.f)
             THEN dst.f[n] ELSE src.f[n]])

\* The third argument of _.defaults in request(): the default values, as the
\* code writes them, under a property named headers.
HeaderDefaults ==
  Lit({<<N_headers, Lit({<<H_client, Str(X_VINE_CLIENT)>>,
                         <<H_language, Str(ACCEPT_LANGUAGE)>>,
                         <<H_agent, Str(USER_AGENT)>>})>>})

\* The session header written whether or not a key is held.
BuildHeadersAlways(callerHeaders, k) ==
  Obj(Put(Defaults(Defaults(EmptyObj, callerHeaders), HeaderDefaults).f, H_session, k))

\* options.headers as request() builds it: the defaults, then the session header.
BuildHeaders(callerHeaders, k) ==
  LET merged == Defaults(Defaults(EmptyObj, callerHeaders), HeaderDefaults)
  IN IF Truthy(k) THEN Obj(Put(merged.f, H_session, k)) ELSE merged

\* The descriptor request() hands to the transport, for the caller's options
\* (a path or a descriptor) and the session key held at the call.
BuildOptions(options, k) ==
  LET o == IF options.t = "str" THEN Lit({<<N_url, options>>}) ELSE options
      url == Str(API_ORIGIN \o StringOf(Get(o, N_url)))
  IN Obj(Put(Put(o.f, N_url, url), N_headers, BuildHeaders(Get(o, N_headers), k)))

\* The same steps on objects with identities, to tell the caller's objects
\* from the ones request() makes.  A heap maps addresses to objects; a
\* property may hold a reference to another object.  The caller's descriptor
\* is at "d" and its headers object, if it has one, at "h".
Ref(a) == [t |-> "ref", at |-> a]
Deref(h, v) == IF v.t = "ref" THEN h[v.at] ELSE v
DerefObj(h, a) == Obj([n \in DOMAIN h[a].f |-> Deref(h, h[a].f[n])])
SetField(h, a, n, v) == [h EXCEPT ![a] = Obj(Put(h[a].f, n, v))]

CallerHeap(options) ==
  IF options.t # "obj" THEN [a \in {} |-> Undefined]
  ELSE IF Get(options, N_headers).t = "obj"
  THEN ("d" :> Obj(Put(options.f, N_headers, Ref("h")))) @@
       ("h" :> Get(options, N_headers))
  ELSE ("d" :> options)

\* The descriptor request() works on being the caller's own object.
CloneSharing(h, a) == [heap |-> h, at |-> a]

\* _.clone(options): a new object at "o" with the properties of the one at a;
\* the objects they refer to are shared.
Clone(h, a) == [heap |-> ("o" :> h[a]) @@ h, at |-> "o"]

\* request() up to the call of the transport: the heap it leaves and the
\* address of the descriptor the transport receives.  The headers object it
\* builds is the new one at "n".
RequestHeap(options, k) ==
  LET h0 == CallerHeap(options)
      c == IF options.t = "str"
           THEN [heap |-> ("o" :> Lit({<<N_url, options>>})) @@ h0, at |-> "o"]
           ELSE Clone(h0, "d")
      h1 == SetField(c.heap, c.at, N_url,
                     Str(API_ORIGIN \o StringOf(Get(c.heap[c.at], N_url))))
      own == Deref(h1, Get(h1[c.at], N_headers))
      h2 == ("n" :> Defaults(Defaults(EmptyObj, own), HeaderDefaults)) @@ h1
      h3 == SetField(h2, c.at, N_headers, Ref("n"))
      h4 == IF Truthy(k) THEN SetField(h3, "n", H_session, k) ELSE h3
  IN [heap |-> h4, at |-> c.at]

\* The caller's argument as request() leaves it, and the descriptor the
\* transport receives, both read through their references.
CallerAfter(options, k) ==
  IF options.t = "obj" THEN DerefObj(RequestHeap(options, k).heap, "d") ELSE options
SentAfter(options, k) ==
  DerefObj(RequestHeap(options, k).heap, RequestHeap(options, k).at)

Settled(st, val, why) == [st |-> st, val |-> val, why |-> why]

\* The handler going on to the body when the transport reported an error and
\* a body came with it.
HandleBodyDespiteError(error, responseBody) ==
  IF Truthy(error) /\ responseBody.t # "str"
  THEN Settled("rejected", NewError(error), "transport")
  ELSE IF responseBody.t # "str" THEN Settled("rejected", NewError(TypeError), "body")
  ELSE LET p == JSONparse(Repair(responseBody.s))
       IN IF ~p.ok THEN Settled("rejected", NewError(SyntaxError), "parse")
          ELSE IF Throws(p.v) THEN Settled("rejected", NewError(TypeError), "envelope")
          ELSE IF Truthy(Get(p.v, N_error))
               THEN Settled("rejected", NewError(Get(p.v, N_error)), "api")
          ELSE Settled("resolved", Get(p.v, N_data), "data")

\* The handler resolving with the envelope instead of its data field.
HandleResolvingEnvelope(error, responseBody) ==
  IF Truthy(error) THEN Settled("rejected", NewError(error), "transport")
  ELSE IF responseBody.t # "str" THEN Settled("rejected", NewError(TypeError), "body")
  ELSE LET p == JSONparse(Repair(responseBody.s))
       IN IF ~p.ok THEN Settled("rejected", NewError(SyntaxError), "parse")
          ELSE IF Throws(p.v) THEN Settled("rejected", NewError(TypeError), "envelope")
          ELSE IF Truthy(Get(p.v, N_error))
               THEN Settled("rejected", NewError(Get(p.v, N_error)), "api")
          ELSE Settled("resolved", p.v, "data")

\* The transport's completion handler: how the deferred settles for the
\* (error, body) the transport reports.  why names the branch taken.
HandleResponse(error, responseBody) ==
  IF Truthy(error) THEN Settled("rejected", NewError(error), "transport")
  ELSE IF responseBody.t # "str" THEN Settled("rejected", NewError(TypeError), "body")
  ELSE LET p == JSONparse(Repair(responseBody.s))
       IN IF ~p.ok THEN Settled("rejected", NewError(SyntaxError), "parse")
          ELSE IF Throws(p.v) THEN Settled("rejected", NewError(TypeError), "envelope")
          ELSE IF Truthy(Get(p.v, N_error))
               THEN Settled("rejected", NewError(Get(p.v, N_error)), "api")
          ELSE Settled("resolved", Get(p.v, N_data), "data")

(***************************************************************************)
(* Inputs: what callers pass and what the transport reports                *)
(***************************************************************************)
\* The number of request() calls a behaviour makes.
MaxCalls == 2

QuoteText(n) == Quote \o n \o Quote
Member(n, v) == QuoteText(n) \o <<":">> \o v

RECURSIVE JoinComma(_)
JoinComma(ms) ==
  IF ms = <<>> THEN <<>>
  ELSE IF Len(ms) = 1 THEN ms[1]
  ELSE ms[1] \o <<",">> \o JoinComma(Tail(ms))

ObjectText(ms) == <<"{">> \o JoinComma(ms) \o <<"}">>

\* {"data":{"key":"k2","userId":7,"username":"b"},"error":""}
BodyFull ==
  ObjectText(<<Member(N_data, ObjectText(<<Member(N_key, QuoteText(<<"k", "2">>)),
                                           Member(N_userId, <<"7">>),
                                           Member(N_username, QuoteText(<<"b">>))>>)),
               Member(N_error, QuoteText(<<>>))>>)
\* {"data":{"key":"k2"}}
BodyKeyOnly ==
  ObjectText(<<Member(N_data, ObjectText(<<Member(N_key, QuoteText(<<"k", "2">>))>>))>>)
\* {"data":{}}
BodyEmptyData == ObjectText(<<Member(N_data, ObjectText(<<>>))>>)
\* {"data":null,"error":"bad"}
BodyApiError ==
  ObjectText(<<Member(N_data, <<"n", "u", "l", "l">>),
               Member(N_error, QuoteText(<<"b", "a", "d">>))>>)
\* {"data":{"key":"k2","userId":"7","username":"b"}}
BodyQuotedId ==
  ObjectText(<<Member(N_data, ObjectText(<<Member(N_key, QuoteText(<<"k", "2">>)),
                                           Member(N_userId, QuoteText(<<"7">>)),
                                           Member(N_username, QuoteText(<<"b">>))>>))>>)
\* {"data"
BodyTruncated == <<"{">> \o QuoteText(N_data)

\* The body argument of the transport's completion when it has one.
ResponseBodies ==
  {Str(BodyFull), Str(BodyKeyOnly), Str(BodyEmptyData), Str(BodyApiError),
   Str(BodyQuotedId), Str(BodyTruncated)}

\* The error argument of the transport's completion.
TransportErrors == {Null, Str(<<"ECONNRESET">>)}

\* The arguments of the transport's completion: without an error, a body;
\* with an error, no body or one that came all the same.
Completions ==
  {<<Null, b>> : b \in ResponseBodies} \cup
  {<<e, b>> : e \in TransportErrors \ {Null}, b \in {Undefined, Str(BodyFull)}}

SettingsFull ==
  Lit({<<N_key, Str(<<"k", "1">>)>>, <<N_userId, Str(<<"1">>)>>,
       <<N_username, Str(<<"a">>)>>})
SettingsKeyOnly == Lit({<<N_key, Str(<<"k", "1">>)>>})

\* The settings argument of the constructor and of authorize.
SettingsInputs == {Undefined, SettingsFull, SettingsKeyOnly}

\* The username and password arguments of login.
CredentialInputs == {Undefined, Str(<<>>), Str(<<"u">>)}

PathMe == Str(<<"users/me">>)
\* The options argument of request: a path, or a descriptor with a method, a
\* query and headers of the caller's own, one a default header's name and one
\* the session header's.
RequestInputs ==
  {PathMe,
   Lit({<<N_url, PathMe>>,
        <<N_method, Str(<<"get">>)>>,
        <<N_qs, Lit({<<<<"page">>, Str(<<"2">>)>>})>>,
        <<N_headers, Lit({<<H_agent, Str(<<"mine">>)>>,
                          <<H_session, Str(<<"mine">>)>>})>>})}

(***************************************************************************)
(* State                                                                   *)
(***************************************************************************)
VARIABLES
  key, userId, username,  \* the client's session fields
  reqs,                   \* the sends made so far, in call order
  transportCalls,         \* how many times the transport was invoked
  thrown,                 \* what the last call raised to its caller, if anything
  lastEvent,              \* the step taken last: its kind, its send, what it delivered
  doc, text, value, stage, \* one response body on its way through repair and parse
  arrived, settled,       \* one completion of the transport and how its deferred settles
  heap                    \* the caller's and the sends' objects, by address, where
                          \* sends are followed as objects

session == <<key, userId, username>>
client == <<key, userId, username, reqs, transportCalls, thrown, lastEvent>>
pipeline == <<doc, text, value, stage, arrived, settled, heap>>
vars == <<key, userId, username, reqs, transportCalls, thrown, lastEvent,
          doc, text, value, stage, arrived, settled, heap>>

\* No completion is being followed on its own.
NoArrival ==
  [error |-> Undefined, response |-> Undefined, body |-> Undefined, kind |-> "none"]
Unsettled == [st |-> "pending", val |-> Undefined, why |-> ""]
\* No object is followed by address.
NoObjects == [a \in {} |-> Undefined]

\* The record of a send that has finished.  Nothing reads a finished send
\* again, so its record is blanked when it finishes; what it delivered is kept
\* in lastEvent until the next step.
Retired ==
  [op |-> "retired", options |-> Undefined, sent |-> Undefined, st |-> "retired",
   val |-> Undefined, why |-> "", chain |-> "none", chainVal |-> Undefined,
   cb |-> Undefined, calls |-> <<>>]

Event(kind, id) == [kind |-> kind, id |-> id, send |-> Retired]
Delivery(kind, id, r) == [kind |-> kind, id |-> id, send |-> r]

\* authorize taking the key and leaving the user as it was.
authorizeKeyOnly(settings) ==
  /\ key' = AndGet(settings, N_key)
  /\ UNCHANGED <<userId, username>>

\* authorize keeping the session when it is given no settings.
authorizeKeeping(settings) ==
  IF Truthy(settings)
  THEN /\ key' = Get(settings, N_key)
       /\ userId' = Get(settings, N_userId)
       /\ username' = Get(settings, N_username)
  ELSE UNCHANGED <<key, userId, username>>

\* Vineapple.prototype.authorize
authorize(settings) ==
  /\ key' = AndGet(settings, N_key)
  /\ userId' = AndGet(settings, N_userId)
  /\ username' = AndGet(settings, N_username)

\* Vineapple.prototype.request: the descriptor is built from the session as it
\* is now and handed to the transport; the deferred is pending.  options is
\* the caller's argument as the call leaves it, sent the descriptor the
\* transport holds, chain the
\* promise login and logout derive from the request's with then(), cb the
\* callback the caller of op supplied and calls its invocations so far.
request(op, options, callback) ==
  /\ Len(reqs) < MaxCalls
  /\ reqs' = Append(reqs, [op |-> op,
                           options |-> CallerAfter(options, key),
                           sent |-> BuildOptions(options, key),
                           st |-> "pending", val |-> Undefined, why |-> "",
                           chain |-> IF op = "request" THEN "none" ELSE "pending",
                           chainVal |-> Undefined,
                           cb |-> callback, calls |-> <<>>])
  /\ transportCalls' = transportCalls + 1

\* new Vineapple(settings)
Init ==
  /\ \E settings \in SettingsInputs :
       /\ key = AndGet(settings, N_key)
       /\ userId = AndGet(settings, N_userId)
       /\ username = AndGet(settings, N_username)
  /\ reqs = <<>>
  /\ transportCalls = 0
  /\ thrown = Undefined
  /\ lastEvent = Event("construct", 0)
  /\ doc = <<>> /\ text = <<>> /\ value = Undefined /\ stage = "idle"
  /\ arrived = NoArrival /\ settled = Unsettled /\ heap = NoObjects

\* A call of client.authorize(settings).
Authorize(settings) ==
  /\ authorize(settings)
  /\ thrown' = Undefined
  /\ lastEvent' = Event("authorize", 0)
  /\ UNCHANGED <<reqs, transportCalls, pipeline>>

\* request() writing the session off as it sends.
RequestClearing(options, callback) ==
  /\ request("request", options, callback)
  /\ authorize(Undefined)
  /\ thrown' = Undefined
  /\ lastEvent' = Event("request", Len(reqs) + 1)
  /\ UNCHANGED pipeline

\* A call of client.request(options, callback).
Request(options, callback) ==
  /\ request("request", options, callback)
  /\ thrown' = Undefined
  /\ lastEvent' = Event("request", Len(reqs) + 1)
  /\ UNCHANGED <<session, pipeline>>

\* createDeviceToken: a digest, kept as the term it is computed from.
createDeviceToken(token) == Str(<<"sha256(">> \o token \o <<")">>)

DEVICE_TOKEN == Str(<<>>)
DEVICE_TOKEN_SEED == <<"Ananas comosus">>

\* The errors login raises for a missing username and a missing password.
UsernameError == NewError(Str(MissingUsername))
PasswordError == NewError(Str(MissingPassword))

LoginDescriptor(u, p) ==
  Lit({<<N_method, Str(<<"post">>)>>,
       <<N_url, Str(<<"users/authenticate">>)>>,
       <<N_form, Lit({<<<<"deviceToken">>,
                        IF Truthy(DEVICE_TOKEN) THEN DEVICE_TOKEN
                        ELSE createDeviceToken(DEVICE_TOKEN_SEED \o <<":">> \o u.s
                                               \o <<":">> \o p.s)>>,
                      <<<<"username">>, u>>,
                      <<<<"password">>, p>>})>>})

\* login clearing the session before it sends, as the earlier snapshot does.
LoginReinitializing(u, p, callback) ==
  /\ Truthy(u) /\ Truthy(p)
  /\ Len(reqs) < MaxCalls
  /\ key' = Null /\ userId' = Null /\ username' = Null
  /\ reqs' = Append(reqs, [op |-> "login",
                           options |-> LoginDescriptor(u, p),
                           sent |-> BuildOptions(LoginDescriptor(u, p), Null),
                           st |-> "pending", val |-> Undefined, why |-> "",
                           chain |-> "pending", chainVal |-> Undefined,
                           cb |-> callback, calls |-> <<>>])
  /\ transportCalls' = transportCalls + 1
  /\ thrown' = Undefined
  /\ lastEvent' = Event("login", Len(reqs) + 1)
  /\ UNCHANGED pipeline

\* login checking the password before the username.
LoginPasswordFirst(u, p, callback) ==
  /\ ~Truthy(u) \/ ~Truthy(p)
  /\ thrown' = (IF ~Truthy(p) THEN PasswordError ELSE UsernameError)
  /\ lastEvent' = Event("loginThrow", 0)
  /\ UNCHANGED <<session, reqs, transportCalls, pipeline>>

\* A call of client.login(u, p, callback): the two checks, then the request.
Login(u, p, callback) ==
  /\ UNCHANGED pipeline
  /\ IF ~Truthy(u)
     THEN /\ thrown' = UsernameError
          /\ lastEvent' = Event("loginThrow", 0)
          /\ UNCHANGED <<session, reqs, transportCalls>>
     ELSE IF ~Truthy(p)
     THEN /\ thrown' = PasswordError
          /\ lastEvent' = Event("loginThrow", 0)
          /\ UNCHANGED <<session, reqs, transportCalls>>
     ELSE /\ request("login", LoginDescriptor(u, p), callback)
          /\ thrown' = Undefined
          /\ lastEvent' = Event("login", Len(reqs) + 1)
          /\ UNCHANGED session

LogoutDescriptor ==
  Lit({<<N_method, Str(<<"delete">>)>>, <<N_url, Str(<<"users/authenticate">>)>>})

\* logout clearing the session at the call, before the server has answered.
LogoutClearingFirst(callback) ==
  /\ request("logout", LogoutDescriptor, callback)
  /\ authorize(Undefined)
  /\ thrown' = Undefined
  /\ lastEvent' = Event("logout", Len(reqs) + 1)
  /\ UNCHANGED pipeline

\* A call of client.logout(callback).
Logout(callback) ==
  /\ request("logout", LogoutDescriptor, callback)
  /\ thrown' = Undefined
  /\ lastEvent' = Event("logout", Len(reqs) + 1)
  /\ UNCHANGED <<session, pipeline>>

\* The promise the call returned to its caller: the request's own for
\* request(), the one derived with then() for login and logout.
Returned(r) ==
  IF r.chain = "none" THEN [st |-> r.st, val |-> r.val]
  ELSE [st |-> r.chain, val |-> r.chainVal]

\* What a callback that raises throws.
CallbackError == Err("Error", <<"raised by the callback">>)

\* promise.then(callback.bind(null, null)).fail(callback): the invocations of
\* the callback still to come, given those made.  A resolved promise invokes
\* it with (null, value); a rejected one, or a first invocation that raised,
\* invokes it with the error.
NextCall(r) ==
  IF ~Truthy(r.cb) \/ Returned(r).st = "pending" THEN <<>>
  ELSE IF r.calls = <<>>
       THEN IF Returned(r).st = "resolved"
            THEN <<[error |-> Null, value |-> Returned(r).val]>>
            ELSE <<[error |-> Returned(r).val, value |-> Undefined]>>
  ELSE IF Len(r.calls) = 1 /\ r.calls[1].error = Null /\ r.cb.behaviour = "throws"
       THEN <<[error |-> CallbackError, value |-> Undefined]>>
  ELSE <<>>

\* Nothing is left to happen for the send: its promises are settled and its
\* callback, if any, has no invocation to come.
Finished(r) == Returned(r).st # "pending" /\ NextCall(r) = <<>>

\* HandleResponse for every completion the transport can report, computed once.
ResponseTable ==
  [c \in Completions |-> HandleResponse(c[1], c[2])]

\* The transport is invoked again when it reports an error.
CompleteRetrying(i, error, responseBody) ==
  /\ reqs[i].st = "pending"
  /\ IF Truthy(error)
     THEN /\ transportCalls' = transportCalls + 1
          /\ lastEvent' = Delivery("complete", i, reqs[i])
          /\ UNCHANGED reqs
     ELSE LET h == ResponseTable[<<error, responseBody>>]
              r == [reqs[i] EXCEPT !.st = h.st, !.val = h.val, !.why = h.why,
                                   !.sent = Undefined, !.options = Undefined]
          IN /\ reqs' = [reqs EXCEPT ![i] = IF Finished(r) THEN Retired ELSE r]
             /\ lastEvent' = Delivery("complete", i, r)
             /\ UNCHANGED transportCalls
  /\ thrown' = Undefined
  /\ UNCHANGED <<session, pipeline>>

\* The handler settling a send that is already settled.
CompleteSettlingAgain(i, error, responseBody) ==
  /\ reqs[i].st \in {"pending", "resolved", "rejected"}
  /\ LET h == ResponseTable[<<error, responseBody>>]
         r == [reqs[i] EXCEPT !.st = h.st, !.val = h.val, !.why = h.why,
                              !.sent = Undefined, !.options = Undefined]
     IN /\ reqs' = [reqs EXCEPT ![i] = IF Finished(r) THEN Retired ELSE r]
        /\ lastEvent' = Delivery("complete", i, r)
  /\ thrown' = Undefined
  /\ UNCHANGED <<session, transportCalls, pipeline>>

\* The transport completes send i with (error, response, body): the handler
\* request() gave it settles the deferred; the call's descriptors are dropped.
Complete(i, error, responseBody) ==
  /\ reqs[i].st = "pending"
  /\ LET h == ResponseTable[<<error, responseBody>>]
         r == [reqs[i] EXCEPT !.st = h.st, !.val = h.val, !.why = h.why,
                              !.sent = Undefined, !.options = Undefined]
     IN /\ reqs' = [reqs EXCEPT ![i] = IF Finished(r) THEN Retired ELSE r]
        /\ lastEvent' = Delivery("complete", i, r)
  /\ thrown' = Undefined
  /\ UNCHANGED <<session, transportCalls, pipeline>>

\* The continuation writing the key it has just taken into the headers of the
\* sends still in flight.
ContinueRewritingPending(i) ==
  /\ reqs[i].chain = "pending"
  /\ reqs[i].st = "resolved"
  /\ authorize(reqs[i].val)
  /\ LET r == [reqs[i] EXCEPT !.chain = "resolved", !.chainVal = Client]
     IN /\ lastEvent' = Delivery("continue", i, r)
        /\ reqs' = [j \in 1..Len(reqs) |->
                      IF j = i THEN (IF Finished(r) THEN Retired ELSE r)
                      ELSE IF reqs[j].st = "pending"
                      THEN [reqs[j] EXCEPT !.sent =
                              BuildOptions(reqs[j].options, AndGet(reqs[i].val, N_key))]
                      ELSE reqs[j]]
  /\ thrown' = Undefined
  /\ UNCHANGED <<transportCalls, pipeline>>

\* The continuation taking the payload only for the send issued last.
ContinueIfIssuedLast(i) ==
  /\ reqs[i].chain = "pending"
  /\ reqs[i].st # "pending"
  /\ LET r == IF reqs[i].st = "resolved"
              THEN [reqs[i] EXCEPT !.chain = "resolved", !.chainVal = Client]
              ELSE [reqs[i] EXCEPT !.chain = "rejected", !.chainVal = reqs[i].val]
     IN /\ IF reqs[i].st = "resolved" /\ i = Len(reqs) THEN authorize(reqs[i].val)
                                                       ELSE UNCHANGED session
        /\ lastEvent' = Delivery("continue", i, r)
        /\ reqs' = [reqs EXCEPT ![i] = IF Finished(r) THEN Retired ELSE r]
  /\ thrown' = Undefined
  /\ UNCHANGED <<transportCalls, pipeline>>

\* The continuation login and logout attach with then(this.authorize.bind(this)):
\* run with the value once the request is resolved, passed over when it is
\* rejected.  authorize returns the client, which resolves the derived promise.
Continue(i) ==
  /\ reqs[i].chain = "pending"
  /\ reqs[i].st # "pending"
  /\ LET r == IF reqs[i].st = "resolved"
              THEN [reqs[i] EXCEPT !.chain = "resolved", !.chainVal = Client]
              ELSE [reqs[i] EXCEPT !.chain = "rejected", !.chainVal = reqs[i].val]
     IN /\ IF reqs[i].st = "resolved" THEN authorize(reqs[i].val)
                                      ELSE UNCHANGED session
        /\ lastEvent' = Delivery("continue", i, r)
        /\ reqs' = [reqs EXCEPT ![i] = IF Finished(r) THEN Retired ELSE r]
  /\ thrown' = Undefined
  /\ UNCHANGED <<transportCalls, pipeline>>

\* The next invocation of the callback of send i.
Notify(i) ==
  /\ NextCall(reqs[i]) # <<>>
  /\ LET r == [reqs[i] EXCEPT !.calls = reqs[i].calls \o NextCall(reqs[i])]
     IN /\ lastEvent' = Delivery("notify", i, r)
        /\ reqs' = [reqs EXCEPT ![i] = IF Finished(r) THEN Retired ELSE r]
  /\ thrown' = Undefined
  /\ UNCHANGED <<session, transportCalls, pipeline>>

Next ==
  \/ \E settings \in SettingsInputs : Authorize(settings)
  \/ \E options \in RequestInputs : Request(options, Undefined)
  \/ \E u \in CredentialInputs, p \in CredentialInputs : Login(u, p, Undefined)
  \/ Logout(Undefined)
  \/ \E i \in 1..Len(reqs), c \in Completions : Complete(i, c[1], c[2])
  \/ \E i \in 1..Len(reqs) : Continue(i)

Spec == Init /\ [][Next]_vars

\* The client used in callback style: the calls take a callback, which either
\* returns or raises when it is invoked.
MaxCallbackCalls == 1

Fn(behaviour) == [t |-> "fn", behaviour |-> behaviour]
Callbacks == {Undefined, Fn("returns"), Fn("throws")}

\* A call with a callback, while the behaviour has calls left.
CallRequest(options, callback) ==
  Len(reqs) < MaxCallbackCalls /\ Request(options, callback)
CallLogin(u, p, callback) ==
  Len(reqs) < MaxCallbackCalls /\ Login(u, p, callback)
CallLogout(callback) ==
  Len(reqs) < MaxCallbackCalls /\ Logout(callback)

NextCallback ==
  \/ \E options \in RequestInputs, callback \in Callbacks : CallRequest(options, callback)
  \/ \E u \in CredentialInputs, p \in CredentialInputs, callback \in Callbacks :
       CallLogin(u, p, callback)
  \/ \E callback \in Callbacks : CallLogout(callback)
  \/ \E i \in 1..Len(reqs), c \in Completions : Complete(i, c[1], c[2])
  \/ \E i \in 1..Len(reqs) : Continue(i)
  \/ \E i \in 1..Len(reqs) : Notify(i)

SpecCallback == Init /\ [][NextCallback]_vars

\* The callback style under the scheduling the transport and the promises
\* give: the transport completes every send it was handed, and a continuation
\* or a callback that is due runs.
Scheduling ==
  /\ \A i \in 1..MaxCallbackCalls :
       WF_vars(\E c \in Completions : i <= Len(reqs) /\ Complete(i, c[1], c[2]))
  /\ \A i \in 1..MaxCallbackCalls : WF_vars(i <= Len(reqs) /\ Continue(i))
  /\ \A i \in 1..MaxCallbackCalls : WF_vars(i <= Len(reqs) /\ Notify(i))

SpecSettle == Init /\ [][NextCallback]_vars /\ Scheduling

(***************************************************************************)
(* The endpoint methods that take options before the callback              *)
(***************************************************************************)
\* util.format(f, arg) for a format with one %s: the placeholder, one element
\* of f, becomes String(arg); without a placeholder arg is appended.
Format(f, arg) ==
  IF \E i \in 1..Len(f) : f[i] = "%s"
  THEN LET i == CHOOSE j \in 1..Len(f) :
                  f[j] = "%s" /\ \A l \in 1..(j - 1) : f[l] # "%s"
       IN SubSeq(f, 1, i - 1) \o StringOf(arg) \o SubSeq(f, i + 1, Len(f))
  ELSE f \o <<" ">> \o StringOf(arg)

\* The arguments taken as they come: a function in the options position
\* stays there.
KeepArgs(options, callback) == [options |-> options, callback |-> callback]

\* if (typeof options === 'function') { callback = options; options = {}; }
ShiftArgs(options, callback) ==
  IF options.t = "fn" THEN [options |-> EmptyObj, callback |-> options]
  ELSE [options |-> options, callback |-> callback]

\* return this.request({ url: url, qs: options }, callback): the arguments
\* request() is called with.
QueryRequest(url, a) ==
  [options |-> Lit({<<N_url, Str(url)>>, <<N_qs, a.options>>}),
   callback |-> a.callback]

graph(options, callback) ==
  QueryRequest(<<"timelines/graph">>, ShiftArgs(options, callback))
user(id, options, callback) ==
  QueryRequest(Format(<<"timelines/users/", "%s">>, id), ShiftArgs(options, callback))
likes(id, options, callback) ==
  QueryRequest(Format(<<"timelines/users/", "%s", "/likes">>, id),
               ShiftArgs(options, callback))
followers(id, options, callback) ==
  QueryRequest(Format(<<"users/", "%s", "/followers">>, id), ShiftArgs(options, callback))
following(id, options, callback) ==
  QueryRequest(Format(<<"users/", "%s", "/following">>, id), ShiftArgs(options, callback))
searchTags(query, options, callback) ==
  QueryRequest(Format(<<"tags/search/", "%s">>, query), ShiftArgs(options, callback))
searchUsers(query, options, callback) ==
  QueryRequest(Format(<<"users/search/", "%s">>, query), ShiftArgs(options, callback))
popular(options, callback) ==
  QueryRequest(<<"timelines/popular">>, ShiftArgs(options, callback))
promoted(options, callback) ==
  QueryRequest(<<"timelines/promoted">>, ShiftArgs(options, callback))
tag(name, options, callback) ==
  QueryRequest(Format(<<"timelines/tags/", "%s">>, name), ShiftArgs(options, callback))
venue(name, options, callback) ==
  QueryRequest(Format(<<"timelines/venues/", "%s">>, name), ShiftArgs(options, callback))

\* The methods, and those of them that take an argument before the options.
Endpoints ==
  {"graph", "user", "likes", "followers", "following", "searchTags",
   "searchUsers", "popular", "promoted", "tag", "venue"}
TakesArgument(m) == m \notin {"graph", "popular", "promoted"}

\* client[m](first, options, callback), or client[m](options, callback) for a
\* method without a first argument.
EndpointCall(m, first, options, callback) ==
  CASE m = "graph" -> graph(options, callback)
    [] m = "user" -> user(first, options, callback)
    [] m = "likes" -> likes(first, options, callback)
    [] m = "followers" -> followers(first, options, callback)
    [] m = "following" -> following(first, options, callback)
    [] m = "searchTags" -> searchTags(first, options, callback)
    [] m = "searchUsers" -> searchUsers(first, options, callback)
    [] m = "popular" -> popular(options, callback)
    [] m = "promoted" -> promoted(options, callback)
    [] m = "tag" -> tag(first, options, callback)
    [] m = "venue" -> venue(first, options, callback)

\* What callers pass: an id, query or name; options, nothing or a function in
\* the options position; a callback or nothing after it.
FirstArguments == {Str(<<"7">>)}
OptionsArguments ==
  {Undefined, EmptyObj, Lit({<<<<"page">>, Str(<<"2">>)>>}),
   Fn("returns"), Fn("throws")}
CallbackArguments == {Undefined, Fn("returns")}

\* The transport's completions followed for these calls.
EndpointCompletions ==
  {<<Null, Str(BodyFull)>>, <<Str(<<"ECONNRESET">>), Undefined>>}

\* A call of an endpoint method: the call of request() it makes.  The step
\* keeps the method and the arguments it was called with.
Endpoint(m, first, options, callback) ==
  /\ Len(reqs) < MaxCallbackCalls
  /\ LET c == EndpointCall(m, first, options, callback)
     IN request("request", c.options, c.callback)
  /\ thrown' = Undefined
  /\ lastEvent' = [kind |-> "endpoint", id |-> Len(reqs) + 1, send |-> Retired,
                   method |-> m, args |-> <<first, options, callback>>]
  /\ UNCHANGED <<session, pipeline>>

NextEndpoints ==
  \/ \E m \in Endpoints, options \in OptionsArguments, callback \in CallbackArguments :
       \E first \in IF TakesArgument(m) THEN FirstArguments ELSE {Undefined} :
         Endpoint(m, first, options, callback)
  \/ \E i \in 1..Len(reqs), c \in EndpointCompletions : Complete(i, c[1], c[2])
  \/ \E i \in 1..Len(reqs) : Notify(i)

SpecEndpoints == Init /\ [][NextEndpoints]_vars

(***************************************************************************)
(* Sends followed as objects: which headers object each send holds         *)
(***************************************************************************)
\* Addresses are pairs: the caller's descriptors <<"d", 0>> and <<"d", 1>>,
\* the headers object both refer to <<"h", 0>>, and for the i-th send the
\* descriptor <<"o", i>> and the headers object <<"n", i>> request() makes.
CallerObjects ==
  (<<"h", 0>> :> Lit({<<H_agent, Str(<<"mine">>)>>})) @@
  (<<"d", 0>> :> Lit({<<N_url, PathMe>>, <<N_headers, Ref(<<"h", 0>>)>>})) @@
  (<<"d", 1>> :> Lit({<<N_url, Str(<<"timelines/popular">>)>>,
                      <<N_headers, Ref(<<"h", 0>>)>>}))

\* The options argument: a path, or one of the caller's descriptors.
SharedInputs == {PathMe, Ref(<<"d", 0>>), Ref(<<"d", 1>>)}

\* The defaults applied to the headers object the descriptor came with.
HeadersInPlace(h, own, i) ==
  IF own.t = "ref"
  THEN [heap |-> [h EXCEPT ![own.at] = Defaults(h[own.at], HeaderDefaults)],
        at |-> own.at]
  ELSE [heap |-> (<<"n", i>> :> Defaults(EmptyObj, HeaderDefaults)) @@ h,
        at |-> <<"n", i>>]

\* _.defaults({}, options.headers, {...}): the literal {} is a new object,
\* filled from the descriptor's headers and then from the defaults.
FreshHeaders(h, own, i) ==
  [heap |-> (<<"n", i>> :> Defaults(Defaults(EmptyObj, Deref(h, own)), HeaderDefaults))
            @@ h,
   at |-> <<"n", i>>]

\* request() up to the call of the transport, as the i-th send on the heap h:
\* the heap it leaves and the address of the descriptor the transport holds.
requestAt(h, options, k, i) ==
  LET h0 == (<<"o", i>> :> (IF options.t = "str" THEN Lit({<<N_url, options>>})
                            ELSE h[options.at])) @@ h
      h1 == SetField(h0, <<"o", i>>, N_url,
                     Str(API_ORIGIN \o StringOf(Get(h0[<<"o", i>>], N_url))))
      hd == FreshHeaders(h1, Get(h1[<<"o", i>>], N_headers), i)
      h2 == SetField(hd.heap, <<"o", i>>, N_headers, Ref(hd.at))
      h3 == IF Truthy(k) THEN SetField(h2, hd.at, H_session, k) ELSE h2
  IN [heap |-> h3, at |-> <<"o", i>>]

InitShared ==
  /\ \E settings \in SettingsInputs :
       /\ key = AndGet(settings, N_key)
       /\ userId = AndGet(settings, N_userId)
       /\ username = AndGet(settings, N_username)
  /\ reqs = <<>>
  /\ transportCalls = 0
  /\ thrown = Undefined
  /\ lastEvent = Event("construct", 0)
  /\ doc = <<>> /\ text = <<>> /\ value = Undefined /\ stage = "idle"
  /\ arrived = NoArrival /\ settled = Unsettled
  /\ heap = CallerObjects

\* A call of client.request(options); the send holds the address of the
\* descriptor handed to the transport.
SendShared(options) ==
  /\ Len(reqs) < MaxCalls
  /\ LET q == requestAt(heap, options, key, Len(reqs) + 1)
     IN /\ heap' = q.heap
        /\ reqs' = Append(reqs, [op |-> "request", options |-> options,
                                 sent |-> Ref(q.at),
                                 st |-> "pending", val |-> Undefined, why |-> "",
                                 chain |-> "none", chainVal |-> Undefined,
                                 cb |-> Undefined, calls |-> <<>>])
  /\ transportCalls' = transportCalls + 1
  /\ thrown' = Undefined
  /\ lastEvent' = Event("request", Len(reqs) + 1)
  /\ UNCHANGED <<session, doc, text, value, stage, arrived, settled>>

\* The names written by a caller, and what is written.
WrittenNames == {H_agent, H_session}
Written == Str(<<"changed">>)

\* Someone holding the headers object at a (the caller its own, the transport
\* or a holder of the descriptor that of a send) writes a property of it.
WriteHeader(a, n) ==
  /\ a \in DOMAIN heap /\ a[1] \in {"h", "n"}
  /\ a[1] = "n" => reqs[a[2]].st = "pending"
  /\ Get(heap[a], n) # Written
  /\ heap' = SetField(heap, a, n, Written)
  /\ lastEvent' = [kind |-> "write", id |-> 0, send |-> Retired, at |-> a]
  /\ thrown' = Undefined
  /\ UNCHANGED <<session, reqs, transportCalls, doc, text, value, stage,
                 arrived, settled>>

\* The transport completes send i, as in Complete; the objects made for the
\* send are let go.
CompleteShared(i, error, responseBody) ==
  /\ reqs[i].st = "pending"
  /\ LET h == ResponseTable[<<error, responseBody>>]
         r == [reqs[i] EXCEPT !.st = h.st, !.val = h.val, !.why = h.why,
                              !.sent = Undefined, !.options = Undefined]
     IN /\ reqs' = [reqs EXCEPT ![i] = IF Finished(r) THEN Retired ELSE r]
        /\ lastEvent' = Delivery("complete", i, r)
  /\ heap' = [a \in DOMAIN heap \ {<<"o", i>>, <<"n", i>>} |-> heap[a]]
  /\ thrown' = Undefined
  /\ UNCHANGED <<session, transportCalls, doc, text, value, stage, arrived, settled>>

HeaderAddresses == {<<"h", 0>>} \cup {<<"n", i>> : i \in 1..MaxCalls}

NextShared ==
  \/ \E options \in SharedInputs : SendShared(options)
  \/ \E a \in HeaderAddresses, n \in WrittenNames : WriteHeader(a, n)
  \/ \E i \in 1..Len(reqs), c \in EndpointCompletions : CompleteShared(i, c[1], c[2])

SpecShared == InitShared /\ [][NextShared]_vars

(***************************************************************************)
(* Properties of the client                                                *)
(***************************************************************************)
Absent(v) == v.t \in {"undefined", "null"}
AllAbsent == Absent(key) /\ Absent(userId) /\ Absent(username)
AllPresent == ~Absent(key) /\ ~Absent(userId) /\ ~Absent(username)

\* The step taken last was a call that made send i.
JustSent(i) == lastEvent.id = i /\ lastEvent.kind \in {"request", "login", "logout"}
\* The step taken last was the continuation of a send made by op; Last is
\* that send as the step left it.
JustContinued(op) == lastEvent.kind = "continue" /\ lastEvent.send.op = op
Last == lastEvent.send

\* C1: the three session fields are all present or all absent, in every state.
C1_SessionAllOrNothing == AllPresent \/ AllAbsent

\* The payload holds a key, a userId and a username.
PayloadComplete(v) ==
  /\ v.t = "obj"
  /\ \A n \in {N_key, N_userId, N_username} : n \in DOMAIN v.f /\ ~Absent(v.f[n])

\* C2: once the continuation of a login whose request resolved has run, the
\* three session fields are the payload's key, userId and username (all present
\* when the payload holds all three) and the login resolves with the client.
C2_LoginSuccess ==
  (JustContinued("login") /\ Last.st = "resolved") =>
    /\ Last.chain = "resolved"
    /\ Last.chainVal = Client
    /\ Last.val.t = "obj" =>
         /\ key = Get(Last.val, N_key)
         /\ userId = Get(Last.val, N_userId)
         /\ username = Get(Last.val, N_username)
    /\ PayloadComplete(Last.val) => AllPresent

\* C2 witness: a login has just succeeded with the full payload; userId is the
\* repaired string.
C2_Witness ==
  /\ Len(reqs) = 1
  /\ JustContinued("login")
  /\ Last.chainVal = Client
  /\ key = Str(<<"k", "2">>) /\ userId = Str(<<"7">>) /\ username = Str(<<"b">>)

\* A step of a send made by op (its call, the completion of its request, its
\* continuation) other than the continuation of a resolved request.
StepShortOfSuccess(op) ==
  \/ lastEvent'.kind = op
  \/ /\ lastEvent'.kind \in {"complete", "continue"}
     /\ lastEvent'.send.op = op
     /\ ~(lastEvent'.kind = "continue" /\ lastEvent'.send.chain = "resolved")

\* C3: no step of a login (the call, the completion of its request, the
\* continuation passed over on failure) changes the session fields, except the
\* continuation of a request that resolved.
C3_FailedLoginKeepsSession ==
  [][StepShortOfSuccess("login") => UNCHANGED session]_vars

\* C3 witness: a login from an authenticated client has failed on an
\* unparseable body, and the session is the one the client was built with.
C3_Witness ==
  /\ Len(reqs) = 1
  /\ JustContinued("login")
  /\ Last.chain = "rejected" /\ Last.why = "parse"
  /\ key = Str(<<"k", "1">>) /\ AllPresent

\* C4: once the continuation of a logout whose request resolved has run, the
\* three session fields are absent and the logout resolves with the client.
C4_LogoutClears ==
  (JustContinued("logout") /\ Last.st = "resolved") =>
    AllAbsent /\ Last.chainVal = Client

\* C5: no step of a logout changes the session fields, except the continuation
\* of a request that resolved.
C5_FailedLogoutKeepsSession ==
  [][StepShortOfSuccess("logout") => UNCHANGED session]_vars

\* C5 witness: a logout of an authenticated client has failed on an API error
\* and the session is still the one held before.
C5_Witness ==
  /\ Len(reqs) = 1
  /\ JustContinued("logout")
  /\ Last.chain = "rejected" /\ Last.why = "api"
  /\ key = Str(<<"k", "1">>) /\ AllPresent

\* C6: a login without a username or without a password raises to its caller,
\* makes no send and no transport call, leaves the session as it was, and names
\* the username when that is missing, the password otherwise.
C6_LoginValidation ==
  [][lastEvent'.kind \in {"login", "loginThrow"} =>
     \A u \in CredentialInputs, p \in CredentialInputs :
       ((~Truthy(u) \/ ~Truthy(p)) /\ Login(u, p, Undefined)) =>
         /\ thrown' = (IF ~Truthy(u) THEN UsernameError ELSE PasswordError)
         /\ transportCalls' = transportCalls
         /\ reqs' = reqs
         /\ UNCHANGED session]_vars

\* C6 witness: the first call of an authenticated client was a login without a
\* password.
C6_Witness ==
  /\ lastEvent = Event("loginThrow", 0)
  /\ thrown = PasswordError
  /\ transportCalls = 0 /\ reqs = <<>>
  /\ AllPresent

\* The headers of the descriptor send i handed to the transport, and the ones
\* its caller supplied.
SentHeaders(i) == Get(reqs[i].sent, N_headers)
CallerHeaders(i) == Get(reqs[i].options, N_headers)
Has(h, n) == h.t = "obj" /\ n \in DOMAIN h.f

\* C7 as stated: the descriptor carries vine-session-id, with the key, exactly
\* when the client holds a key at the call.
C7_SessionHeaderIffKey ==
  \A i \in 1..Len(reqs) :
    JustSent(i) =>
      /\ Has(SentHeaders(i), H_session) <=> Truthy(key)
      /\ Truthy(key) => Get(SentHeaders(i), H_session) = key

\* C7 amended: with a key held the header carries it; with none held the
\* header is there only if the caller supplied it, with the caller's value.
C7_SessionHeader ==
  \A i \in 1..Len(reqs) :
    JustSent(i) =>
      /\ Truthy(key) =>
           Has(SentHeaders(i), H_session) /\ Get(SentHeaders(i), H_session) = key
      /\ ~Truthy(key) =>
           /\ Has(SentHeaders(i), H_session) <=> Has(CallerHeaders(i), H_session)
           /\ Get(SentHeaders(i), H_session) = Get(CallerHeaders(i), H_session)

\* C7 witness: both cases have happened: a send without the header from a
\* client without a key, then one carrying the key.
C7_Witness ==
  /\ Len(reqs) = 2
  /\ JustSent(2)
  /\ reqs[1].st = "pending"
  /\ ~Has(SentHeaders(1), H_session)
  /\ Truthy(key) /\ Get(SentHeaders(2), H_session) = key

DefaultHeaders ==
  {<<H_client, Str(X_VINE_CLIENT)>>, <<H_language, Str(ACCEPT_LANGUAGE)>>,
   <<H_agent, Str(USER_AGENT)>>}

\* C8: the descriptor's headers hold every default header under its own name,
\* with the caller's value where the caller supplied one and the default
\* value otherwise.
C8_DefaultHeaders ==
  \A i \in 1..Len(reqs) :
    JustSent(i) =>
      \A d \in DefaultHeaders :
        /\ Has(SentHeaders(i), d[1])
        /\ Get(SentHeaders(i), d[1]) =
             IF Has(CallerHeaders(i), d[1]) THEN Get(CallerHeaders(i), d[1]) ELSE d[2]

(***************************************************************************)
(* Response bodies as documents: the envelope {"data":{...}} with a bounded *)
(* number of members, rendered to the text the transport delivers.         *)
(***************************************************************************)
\* The longest digit run enumerated (one longer literal, BigId, is added).
MaxDigits == 2
\* The most members the data object of a document has.
MaxMembers == 2

\* 2^53 + 1
BigId == <<"9", "0", "0", "7", "1", "9", "9", "2", "5", "4", "7", "4", "0", "9", "9", "3">>

RECURSIVE SeqsUpTo(_, _)
SeqsUpTo(S, n) ==
  IF n = 0 THEN {<<>>}
  ELSE LET shorter == SeqsUpTo(S, n - 1)
       IN shorter \cup {Append(q, x) : q \in shorter, x \in S}

\* Integer literals: no leading zero.
DigitRuns ==
  {d \in SeqsUpTo({"0", "1", "9"}, MaxDigits) : d # <<>> /\ (Len(d) = 1 \/ d[1] # "0")}
    \cup {BigId}

IdNames ==
  {N_comment \o <<"I", "d">>, N_like \o <<"I", "d">>, N_post \o <<"I", "d">>,
   N_tag \o <<"I", "d">>, N_user \o <<"I", "d">>, N_venue \o <<"I", "d">>, <<"i", "d">>}
OtherNames == {N_key, <<"g", "r", "i", "d">>}

DDigits(d) == [k |-> "digits", d |-> d]
DString(x) == [k |-> "str", x |-> x]
DNull == [k |-> "null"]
DTrue == [k |-> "true"]
DObject(m) == [k |-> "obj", m |-> m]
DArray(e) == [k |-> "arr", e |-> e]
DMember(n, gap, v) == [name |-> n, gap |-> gap, val |-> v]

LeafValues ==
  {DDigits(d) : d \in DigitRuns}
    \cup {DString(<<>>), DString(<<"7">>), DString(<<"a">>), DNull, DTrue}
NestedValues ==
  {DObject(<<DMember(<<"i", "d">>, <<>>, DDigits(<<"5">>)),
             DMember(N_key, <<>>, DString(<<"a">>))>>),
   DObject(<<DMember(N_post \o <<"I", "d">>, <<>>, DNull)>>),
   DArray(<<DDigits(<<"1">>), DObject(<<DMember(<<"i", "d">>, <<" ">>, DDigits(<<"2">>))>>)>>)}

FirstMembers ==
  {DMember(n, gap, v) : n \in IdNames \cup OtherNames, gap \in {<<>>, <<" ">>},
                        v \in LeafValues \cup NestedValues}
MoreMembers ==
  {DMember(<<"i", "d">>, <<>>, DDigits(<<"1", "0">>)),
   DMember(N_userId, <<>>, DString(<<"7">>)),
   DMember(N_username, <<>>, DString(<<"b">>)),
   DMember(N_tag \o <<"I", "d">>, <<" ">>, DDigits(BigId))}

\* The members of a document's data object.
Documents ==
  {<<m>> \o more : m \in FirstMembers, more \in SeqsUpTo(MoreMembers, MaxMembers - 1)}

RECURSIVE RenderValue(_), RenderMembers(_)
RenderMember(m) == QuoteText(m.name) \o <<":">> \o m.gap \o RenderValue(m.val)
RenderMembers(ms) == [i \in 1..Len(ms) |-> RenderMember(ms[i])]
RenderValue(v) ==
  CASE v.k = "digits" -> v.d
    [] v.k = "str" -> QuoteText(v.x)
    [] v.k = "null" -> <<"n", "u", "l", "l">>
    [] v.k = "true" -> <<"t", "r", "u", "e">>
    [] v.k = "obj" -> ObjectText(RenderMembers(v.m))
    [] v.k = "arr" ->
         <<"[">> \o JoinComma([i \in 1..Len(v.e) |-> RenderValue(v.e[i])]) \o <<"]">>

\* The body text of a document.
Render(d) == ObjectText(<<Member(N_data, ObjectText(RenderMembers(d)))>>)

\* The request handler's two steps on a body, one at a time: the rewrite of
\* the identifiers, then JSON.parse of the rewritten text.
InitRepair ==
  /\ key = Undefined /\ userId = Undefined /\ username = Undefined
  /\ reqs = <<>>
  /\ transportCalls = 0
  /\ thrown = Undefined
  /\ lastEvent = Event("construct", 0)
  /\ doc \in Documents
  /\ text = Render(doc)
  /\ value = Undefined
  /\ stage = "raw"
  /\ arrived = NoArrival /\ settled = Unsettled /\ heap = NoObjects

\* body = body.replace(VINE_ID_SEARCH, VINE_ID_REPLACE)
RepairBody ==
  /\ stage = "raw"
  /\ text' = Repair(text)
  /\ stage' = "repaired"
  /\ UNCHANGED <<doc, value, arrived, settled, heap, client>>

\* data = JSON.parse(body): the value, or the parse error caught.
ParseBody ==
  /\ stage = "repaired"
  /\ LET p == JSONparse(text)
     IN IF p.ok THEN value' = p.v /\ stage' = "parsed"
        ELSE value' = NewError(SyntaxError) /\ stage' = "failed"
  /\ UNCHANGED <<doc, text, arrived, settled, heap, client>>

NextRepair == RepairBody \/ ParseBody

SpecRepair == InitRepair /\ [][NextRepair]_vars

(***************************************************************************)
(* Properties of the identifier repair                                     *)
(***************************************************************************)
\* A member whose name is an identifier field and whose value is an integer
\* literal.
NumericId(m) == m.name \in IdNames /\ m.val.k = "digits"

RECURSIVE IdsAllNumeric(_), ValueIdsAllNumeric(_)
\* Every identifier field among the members, at any depth, holds an integer
\* literal.
IdsAllNumeric(ms) ==
  \A i \in 1..Len(ms) :
    /\ ms[i].name \in IdNames => ms[i].val.k = "digits"
    /\ ValueIdsAllNumeric(ms[i].val)
ValueIdsAllNumeric(v) ==
  CASE v.k = "obj" -> IdsAllNumeric(v.m)
    [] v.k = "arr" -> \A i \in 1..Len(v.e) : ValueIdsAllNumeric(v.e[i])
    [] OTHER -> TRUE

RECURSIVE QuotedValue(_), QuotedMembers(_)
\* The text of a member with the integer literal of an identifier field quoted.
QuotedMember(m) ==
  QuoteText(m.name) \o <<":">> \o m.gap
    \o (IF NumericId(m) THEN QuoteText(m.val.d) ELSE QuotedValue(m.val))
QuotedMembers(ms) == [i \in 1..Len(ms) |-> QuotedMember(ms[i])]
QuotedValue(v) ==
  CASE v.k = "obj" -> ObjectText(QuotedMembers(v.m))
    [] v.k = "arr" ->
         <<"[">> \o JoinComma([i \in 1..Len(v.e) |-> QuotedValue(v.e[i])]) \o <<"]">>
    [] OTHER -> RenderValue(v)

\* The body text of a document with every identifier literal quoted.
QuotedRender(d) == ObjectText(<<Member(N_data, ObjectText(QuotedMembers(d)))>>)

RECURSIVE ExpectedValue(_, _), ExpectedMembers(_, _)
\* The value a document value stands for, an identifier's literal as the
\* string of its digits.
ExpectedValue(v, id) ==
  CASE v.k = "digits" -> IF id THEN Str(v.d) ELSE NumberOf(v.d)
    [] v.k = "str" -> Str(v.x)
    [] v.k = "null" -> Null
    [] v.k = "true" -> Bool(TRUE)
    [] v.k = "obj" -> Obj(ExpectedMembers(v.m, EmptyObj.f))
    [] v.k = "arr" -> Arr([i \in 1..Len(v.e) |-> ExpectedValue(v.e[i], FALSE)])
ExpectedMembers(ms, acc) ==
  IF ms = <<>> THEN acc
  ELSE ExpectedMembers(Tail(ms),
         Put(acc, ms[1].name, ExpectedValue(ms[1].val, ms[1].name \in IdNames)))

Contains(s, w) == \E i \in 1..(Len(s) - Len(w) + 1) : HasAt(s, i, w)

Repaired == stage \in {"repaired", "parsed", "failed"}

\* C9: where every identifier field of the body holds an integer literal, the
\* repaired text is the body with each such literal quoted, digit for digit,
\* commas kept, it parses, and the data resolved holds each identifier as the
\* string of its digits; in any body, the quoted form of each identifier
\* literal of the data object, with the comma after it, is in the repaired text.
C9_IdentifierRepair ==
  /\ (Repaired /\ IdsAllNumeric(doc)) => text = QuotedRender(doc)
  /\ IdsAllNumeric(doc) => stage # "failed"
  /\ (stage = "parsed" /\ IdsAllNumeric(doc)) =>
       Get(value, N_data) = Obj(ExpectedMembers(doc, EmptyObj.f))
  /\ Repaired =>
       \A i \in 1..Len(doc) :
         NumericId(doc[i]) =>
           Contains(text, QuotedMember(doc[i]) \o (IF i < Len(doc) THEN <<",">> ELSE <<>>))

\* C9 witness: a userId above 2^53 followed by another member has come through
\* repair and parse as the string of its digits.
C9_Witness ==
  /\ stage = "parsed"
  /\ Len(doc) = 2
  /\ doc[1] = DMember(N_userId, <<>>, DDigits(BigId))
  /\ Get(Get(value, N_data), N_userId) = Str(BigId)

\* C10: the repair changes nothing in a body whose identifier fields hold no
\* integer literal, every repaired body parses, and repairing the repaired
\* text changes nothing.
C10_RepairLeavesNonNumeric ==
  /\ (Repaired /\ \A i \in 1..Len(doc) : ~NumericId(doc[i]) /\ doc[i].val.k \notin {"obj", "arr"})
       => text = Render(doc)
  /\ stage # "failed"
  /\ Repaired => Repair(text) = text

(***************************************************************************)
(* The completion handler on its own                                       *)
(***************************************************************************)
N_message == <<"m", "e", "s", "s", "a", "g", "e">>
N_statusCode == <<"statusCode">>
TextNull == <<"n", "u", "l", "l">>
TextBad == <<"b", "a", "d">>

\* A field of the envelope the server sends: whether it is there, its JSON
\* text, and the value it stands for (an identifier the value of its digits).
Field(present, txt, val) == [present |-> present, txt |-> txt, val |-> val]
AbsentField == Field(FALSE, <<>>, Undefined)

\* error: absent, "", null, "bad", {"message":"bad"}
ErrorFields ==
  {AbsentField,
   Field(TRUE, QuoteText(<<>>), Str(<<>>)),
   Field(TRUE, TextNull, Null),
   Field(TRUE, QuoteText(TextBad), Str(TextBad)),
   Field(TRUE, ObjectText(<<Member(N_message, QuoteText(TextBad))>>),
         Lit({<<N_message, Str(TextBad)>>}))}

\* data: absent, null, {}, {"key":"k2"}, {"userId":7}, {"userId":"7"}
DataFields ==
  {AbsentField,
   Field(TRUE, TextNull, Null),
   Field(TRUE, ObjectText(<<>>), EmptyObj),
   Field(TRUE, ObjectText(<<Member(N_key, QuoteText(<<"k", "2">>))>>),
         Lit({<<N_key, Str(<<"k", "2">>)>>})),
   Field(TRUE, ObjectText(<<Member(N_userId, <<"7">>)>>),
         Lit({<<N_userId, Str(<<"7">>)>>})),
   Field(TRUE, ObjectText(<<Member(N_userId, QuoteText(<<"7">>))>>),
         Lit({<<N_userId, Str(<<"7">>)>>}))}

Envelopes == [e : ErrorFields, d : DataFields]
NoEnvelope == [e |-> AbsentField, d |-> AbsentField]

EnvelopeText(env) ==
  ObjectText((IF env.d.present THEN <<Member(N_data, env.d.txt)>> ELSE <<>>) \o
             (IF env.e.present THEN <<Member(N_error, env.e.txt)>> ELSE <<>>))

\* Bodies that are not an envelope: none, an object instead of a text, the
\* empty text, the texts null, 7 and [], and a text cut short.
OtherBodies ==
  {Undefined, EmptyObj, Str(<<>>), Str(TextNull), Str(<<"7">>), Str(<<"[", "]">>),
   Str(BodyTruncated)}

\* The error argument: none, a text, an Error object.
HandlerErrors == {Null, Str(<<"ECONNRESET">>), Err("Error", <<"ECONNRESET">>)}

\* The response argument: none, or one with a status code.
Status(code) == Lit({<<N_statusCode, Str(code)>>})
Responses == {Undefined, Status(<<"200">>), Status(<<"404">>), Status(<<"500">>)}

\* The arguments the transport hands to the completion handler, with the
\* envelope the body was written from when it is one.
Arrivals ==
  {[error |-> e, response |-> r, body |-> Str(EnvelopeText(v)),
    kind |-> "envelope", env |-> v] :
     e \in HandlerErrors, r \in Responses, v \in Envelopes} \cup
  {[error |-> e, response |-> r, body |-> b, kind |-> "other", env |-> NoEnvelope] :
     e \in HandlerErrors, r \in Responses, b \in OtherBodies}

InitHandler ==
  /\ key = Undefined /\ userId = Undefined /\ username = Undefined
  /\ reqs = <<>>
  /\ transportCalls = 0
  /\ thrown = Undefined
  /\ lastEvent = Event("construct", 0)
  /\ doc = <<>> /\ text = <<>> /\ value = Undefined /\ stage = "idle"
  /\ arrived \in Arrivals
  /\ settled = Unsettled /\ heap = NoObjects

\* function (error, response, body) { ... }: the handler reads error and
\* body; response is not read.
HandleArrival ==
  /\ settled.st = "pending"
  /\ settled' = HandleResponse(arrived.error, arrived.body)
  /\ UNCHANGED <<arrived, doc, text, value, stage, heap, client>>

NextHandler == HandleArrival

SpecHandler == InitHandler /\ [][NextHandler]_vars

(***************************************************************************)
(* Properties of the completion handler                                    *)
(***************************************************************************)
\* The handler has run on an envelope the transport delivered without error.
HandledEnvelope ==
  settled.st # "pending" /\ arrived.kind = "envelope" /\ ~Truthy(arrived.error)

\* The repaired body is valid JSON.
BodyParses == arrived.body.t = "str" /\ JSONparse(Repair(arrived.body.s)).ok

\* A field that is there and holds neither null nor the empty text.
NonEmptyField(f) == f.present /\ f.val \notin {Null, Str(<<>>)}

\* An Error carries a value when the value is its message.
Carries(e, v) == e.t = "error" /\ v.t = "str" /\ e.message = v.s

\* C11: an envelope with a non-empty error field, delivered without transport
\* error, fails the request with an error carrying the field's value, whatever
\* the status code and whether or not data is there too.
C11_ApiErrorCarried ==
  (HandledEnvelope /\ BodyParses /\ NonEmptyField(arrived.env.e)) =>
    settled.st = "rejected" /\ Carries(settled.val, arrived.env.e.val)

\* C12: an envelope that parses and has no error field, or an empty one,
\* resolves the request with the value of its data field, whatever the status
\* code; without a data field it resolves with undefined.
C12_ResolvesWithData ==
  (HandledEnvelope /\ BodyParses /\ ~NonEmptyField(arrived.env.e)) =>
    /\ settled.st = "resolved"
    /\ settled.val = arrived.env.d.val

\* C12 witness: an envelope without data and without error, answered with
\* status 500, has resolved the request with undefined.
C12_Witness ==
  /\ HandledEnvelope
  /\ arrived.response = Status(<<"500">>)
  /\ ~arrived.env.d.present /\ ~arrived.env.e.present
  /\ settled.st = "resolved" /\ settled.val = Undefined

\* The text of the transport's error, as an Error's message holds it.
CauseText(e) == IF e.t = "error" THEN <<e.name, ": ">> \o e.message ELSE e.s

\* C13: a completion with a transport error fails the request with an Error
\* whose message is the cause's text, on the branch that neither repairs nor
\* parses, whatever the body.
C13_TransportError ==
  (settled.st # "pending" /\ arrived.error # Null) =>
    /\ settled.st = "rejected"
    /\ settled.why = "transport"
    /\ settled.val.t = "error" /\ settled.val.message = CauseText(arrived.error)

\* C13 witness: a transport error came with a body that would have resolved
\* the request.
C13_Witness ==
  /\ settled.st = "rejected" /\ settled.why = "transport"
  /\ arrived.error = Err("Error", <<"ECONNRESET">>)
  /\ arrived.kind = "envelope"
  /\ arrived.env.d.present /\ ~arrived.env.e.present

\* The causes of failure of a completion: a transport error, a body that is
\* absent or not a text, a text that is not valid JSON once repaired, a parsed
\* value that is not an envelope, an envelope reporting an error.
TransportFailed == arrived.error # Null
BodyNotText == arrived.body.t # "str"
BodyMalformed == arrived.body.t = "str" /\ ~BodyParses
NotAnEnvelope == arrived.kind = "other" /\ BodyParses
ApiFailed == arrived.kind = "envelope" /\ BodyParses /\ NonEmptyField(arrived.env.e)

\* C14: whatever the cause of failure, the handler settles the deferred as
\* rejected with an Error; it raises nothing itself.
C14_FailuresSurface ==
  (/\ settled.st # "pending"
   /\ \/ TransportFailed
      \/ BodyNotText
      \/ BodyMalformed
      \/ NotAnEnvelope
      \/ ApiFailed) =>
    settled.st = "rejected" /\ settled.val.t = "error"

(***************************************************************************)
(* Properties of the callback style                                        *)
(***************************************************************************)
\* The step taken last was the last of a send whose caller supplied a
\* callback.
JustFinishedWithCallback ==
  /\ lastEvent.kind \in {"complete", "continue", "notify"}
  /\ Finished(Last)
  /\ Truthy(Last.cb)

\* C15: the callback of a finished send has been invoked, with (null, value)
\* only if the returned promise is resolved with value, and with an error
\* first only if the returned promise is rejected with that error.
C15_CallbackSameOutcome ==
  JustFinishedWithCallback =>
    /\ Last.calls # <<>>
    /\ \A k \in 1..Len(Last.calls) :
         IF Last.calls[k].error = Null
         THEN /\ Returned(Last).st = "resolved"
              /\ Last.calls[k].value = Returned(Last).val
         ELSE /\ Returned(Last).st = "rejected"
              /\ Last.calls[k].error = Returned(Last).val

(***************************************************************************)
(* Properties of sends in flight                                           *)
(***************************************************************************)
\* Send i is in flight before and after the step.
StaysPending(i) == reqs[i].st = "pending" /\ reqs'[i].st = "pending"

\* C16: the descriptor a send hands to the transport takes the session header
\* from the key held at the call (the caller's own header when no key is
\* held), and no later step changes the descriptor of a send in flight.
C16_HeadersKeepCredential ==
  [][/\ \A i \in 1..Len(reqs) : StaysPending(i) => reqs'[i].sent = reqs[i].sent
     /\ Len(reqs') > Len(reqs) =>
          LET sent == Get(reqs'[Len(reqs')].sent, N_headers)
              own == Get(reqs'[Len(reqs')].options, N_headers)
          IN Get(sent, H_session) = IF Truthy(key) THEN key ELSE Get(own, H_session)
    ]_vars

\* C16 witness: a login or logout has taken effect, leaving the client with
\* another key or none, while a send issued under the key k1 is in flight
\* with k1 in its headers.
C16_Witness ==
  /\ lastEvent.kind = "continue" /\ Last.chain = "resolved"
  /\ key # Str(<<"k", "1">>)
  /\ \E i \in 1..Len(reqs) :
       /\ reqs[i].st = "pending"
       /\ Get(SentHeaders(i), H_session) = Str(<<"k", "1">>)

\* A logout has been called and its request is in flight.
LogoutPending == \E j \in 1..Len(reqs) : reqs[j].op = "logout" /\ reqs[j].st = "pending"

\* C17: the call of logout and the completion of its request leave the
\* session as it was, and a request issued by a client holding a key while a
\* logout is in flight carries the key in its session header.
C17_LogoutKeepsSessionUntilAnswered ==
  [][/\ lastEvent'.kind = "logout" => UNCHANGED session
     /\ (lastEvent'.kind = "complete" /\ lastEvent'.send.op = "logout") =>
          UNCHANGED session
     /\ (lastEvent'.kind = "request" /\ LogoutPending /\ Truthy(key)) =>
          Get(Get(reqs'[Len(reqs')].sent, N_headers), H_session) = key
    ]_vars

\* C17 witness: an authenticated client called logout, then request; the
\* logout is in flight and the request carries the key.
C17_Witness ==
  /\ lastEvent = Event("request", 2)
  /\ reqs[1].op = "logout" /\ reqs[1].st = "pending"
  /\ AllPresent
  /\ Get(SentHeaders(2), H_session) = key

(***************************************************************************)
(* The earlier snapshot of the client, src/lib/vineapple.js                *)
(***************************************************************************)
lib_USER_AGENT ==
  <<"com.vine.iphone/1.0.3 (unknown, iPhone OS 6.0.1, iPhone, Scale/2.000000)">>
lib_ACCEPT_LANGUAGE ==
  <<"en, sv, fr, de, ja, nl, it, es, pt, pt-PT, da, fi, nb, ko, zh-Hans, zh-Hant, ru, pl, tr, uk, ar, hr, cs, el, he, ro, sk, th, id, ms, en-GB, ca, hu, vi, en-us;q=0.8">>

\* One attempt of /"userId":(\s*)(\d*)/g at position i.
lib_ID_KEY == Quote \o N_userId \o Quote \o <<":">>
lib_ID_SEARCH(s, i) ==
  IF HasAt(s, i, lib_ID_KEY)
  THEN LET a == i + Len(lib_ID_KEY)
           b == SkipWhile(s, a, Whitespace)
           c == SkipWhile(s, b, Digits)
       IN [ok |-> TRUE, g1 |-> SubSeq(s, a, b - 1), g2 |-> SubSeq(s, b, c - 1),
           g3 |-> <<>>, end |-> c]
  ELSE NoMatch

\* '"userId":$1"$2"'
lib_ID_REPLACE(m) == lib_ID_KEY \o m.g1 \o Quote \o m.g2 \o Quote

RECURSIVE lib_ReplaceFrom(_, _)
lib_ReplaceFrom(s, i) ==
  IF i > Len(s) THEN <<>>
  ELSE LET m == lib_ID_SEARCH(s, i)
       IN IF m.ok THEN lib_ID_REPLACE(m) \o lib_ReplaceFrom(s, m.end)
          ELSE <<s[i]>> \o lib_ReplaceFrom(s, i + 1)

lib_Repair(s) == lib_ReplaceFrom(s, 1)

lib_HeaderDefaults ==
  Lit({<<N_headers, Lit({<<H_agent, Str(lib_USER_AGENT)>>,
                         <<H_language, Str(lib_ACCEPT_LANGUAGE)>>})>>})

lib_BuildHeaders(callerHeaders, k) ==
  LET merged == Defaults(Defaults(EmptyObj, callerHeaders), lib_HeaderDefaults)
  IN IF Truthy(k) THEN Obj(Put(merged.f, H_session, k)) ELSE merged

lib_BuildOptions(options, k) ==
  LET o == IF options.t = "str" THEN Lit({<<N_url, options>>}) ELSE options
      url == Str(API_ORIGIN \o StringOf(Get(o, N_url)))
  IN Obj(Put(Put(o.f, N_url, url), N_headers, lib_BuildHeaders(Get(o, N_headers), k)))

\* The snapshot's completion handler.
lib_HandleResponse(error, responseBody) ==
  IF Truthy(error) THEN Settled("rejected", NewError(error), "transport")
  ELSE IF responseBody.t # "str" THEN Settled("rejected", NewError(TypeError), "body")
  ELSE LET p == JSONparse(lib_Repair(responseBody.s))
       IN IF ~p.ok THEN Settled("rejected", NewError(SyntaxError), "parse")
          ELSE IF Throws(p.v) THEN Settled("rejected", NewError(TypeError), "envelope")
          ELSE IF Truthy(Get(p.v, N_error))
               THEN Settled("rejected", NewError(Get(p.v, N_error)), "api")
          ELSE Settled("resolved", Get(p.v, N_data), "data")

lib_ResponseTable ==
  [c \in Completions |-> lib_HandleResponse(c[1], c[2])]

\* Vineapple.prototype.initialize
lib_initialize == key' = Null /\ userId' = Null /\ username' = Null

\* Vineapple.prototype.authorize, for data whose properties can be read.
lib_authorize(data) ==
  /\ key' = Get(data, N_key)
  /\ userId' = Get(data, N_userId)
  /\ username' = Get(data, N_username)

\* Vineapple.prototype.request, with the key the caller of it holds by then.
lib_request(op, options, k) ==
  /\ Len(reqs) < MaxCalls
  /\ reqs' = Append(reqs, [op |-> op,
                           options |-> options,
                           sent |-> lib_BuildOptions(options, k),
                           st |-> "pending", val |-> Undefined, why |-> "",
                           chain |-> IF op = "request" THEN "none" ELSE "pending",
                           chainVal |-> Undefined,
                           cb |-> Undefined, calls |-> <<>>])
  /\ transportCalls' = transportCalls + 1

\* new Vineapple()
InitLib ==
  /\ key = Null /\ userId = Null /\ username = Null
  /\ reqs = <<>>
  /\ transportCalls = 0
  /\ thrown = Undefined
  /\ lastEvent = Event("construct", 0)
  /\ doc = <<>> /\ text = <<>> /\ value = Undefined /\ stage = "idle"
  /\ arrived = NoArrival /\ settled = Unsettled /\ heap = NoObjects

\* A call of client.authorize(data); reading data.key raises when there is
\* no data.
LibAuthorize(data) ==
  /\ IF Throws(data)
     THEN thrown' = TypeError /\ UNCHANGED session
     ELSE thrown' = Undefined /\ lib_authorize(data)
  /\ lastEvent' = Event("authorize", 0)
  /\ UNCHANGED <<reqs, transportCalls, pipeline>>

LibRequest(options) ==
  /\ lib_request("request", options, key)
  /\ thrown' = Undefined
  /\ lastEvent' = Event("request", Len(reqs) + 1)
  /\ UNCHANGED <<session, pipeline>>

lib_LoginDescriptor(u, p) ==
  Lit({<<N_method, Str(<<"post">>)>>,
       <<N_url, Str(<<"users/authenticate">>)>>,
       <<N_form, Lit({<<<<"username">>, u>>, <<<<"password">>, p>>})>>})

\* A call of client.login(u, p): the two checks, this.initialize(), then the
\* request, which finds no key.
LibLogin(u, p) ==
  /\ UNCHANGED pipeline
  /\ IF ~Truthy(u)
     THEN /\ thrown' = UsernameError
          /\ lastEvent' = Event("loginThrow", 0)
          /\ UNCHANGED <<session, reqs, transportCalls>>
     ELSE IF ~Truthy(p)
     THEN /\ thrown' = PasswordError
          /\ lastEvent' = Event("loginThrow", 0)
          /\ UNCHANGED <<session, reqs, transportCalls>>
     ELSE /\ lib_initialize
          /\ lib_request("login", lib_LoginDescriptor(u, p), Null)
          /\ thrown' = Undefined
          /\ lastEvent' = Event("login", Len(reqs) + 1)

LibLogout ==
  /\ lib_request("logout", LogoutDescriptor, key)
  /\ thrown' = Undefined
  /\ lastEvent' = Event("logout", Len(reqs) + 1)
  /\ UNCHANGED <<session, pipeline>>

LibComplete(i, error, responseBody) ==
  /\ reqs[i].st = "pending"
  /\ LET h == lib_ResponseTable[<<error, responseBody>>]
         r == [reqs[i] EXCEPT !.st = h.st, !.val = h.val, !.why = h.why,
                              !.sent = Undefined, !.options = Undefined]
     IN /\ reqs' = [reqs EXCEPT ![i] = IF Finished(r) THEN Retired ELSE r]
        /\ lastEvent' = Delivery("complete", i, r)
  /\ thrown' = Undefined
  /\ UNCHANGED <<session, transportCalls, pipeline>>

\* then(this.authorize.bind(this)) for login, then(this.initialize.bind(this))
\* for logout.  authorize raising on a value without properties rejects the
\* derived promise with what it raised.
LibContinue(i) ==
  /\ reqs[i].chain = "pending"
  /\ reqs[i].st # "pending"
  /\ LET raises == reqs[i].op = "login" /\ Throws(reqs[i].val)
         r == IF reqs[i].st = "rejected"
              THEN [reqs[i] EXCEPT !.chain = "rejected", !.chainVal = reqs[i].val]
              ELSE IF raises
              THEN [reqs[i] EXCEPT !.chain = "rejected", !.chainVal = TypeError]
              ELSE [reqs[i] EXCEPT !.chain = "resolved", !.chainVal = Client]
     IN /\ IF reqs[i].st = "rejected" \/ raises THEN UNCHANGED session
           ELSE IF reqs[i].op = "login" THEN lib_authorize(reqs[i].val)
           ELSE lib_initialize
        /\ lastEvent' = Delivery("continue", i, r)
        /\ reqs' = [reqs EXCEPT ![i] = IF Finished(r) THEN Retired ELSE r]
  /\ thrown' = Undefined
  /\ UNCHANGED <<transportCalls, pipeline>>

NextLib ==
  \/ \E data \in SettingsInputs : LibAuthorize(data)
  \/ \E options \in RequestInputs : LibRequest(options)
  \/ \E u \in CredentialInputs, p \in CredentialInputs : LibLogin(u, p)
  \/ LibLogout
  \/ \E i \in 1..Len(reqs), c \in Completions : LibComplete(i, c[1], c[2])
  \/ \E i \in 1..Len(reqs) : LibContinue(i)

SpecLib == InitLib /\ [][NextLib]_vars

\* C18: in the earlier snapshot, no step of a login on an authenticated
\* client, short of the continuation of its resolved request, changes the
\* session.
C18_LibFailedLoginKeepsSession ==
  [][(AllPresent /\ StepShortOfSuccess("login")) => UNCHANGED session]_vars

(***************************************************************************)
(* Frame properties                                                        *)
(***************************************************************************)
\* The step was a call of authorize, or the continuation of a login or a
\* logout whose request was resolved.
SessionWriter ==
  \/ lastEvent'.kind = "authorize"
  \/ lastEvent'.kind = "continue" /\ lastEvent'.send.chain = "resolved"

\* C19: only authorize and the continuation of a resolved login or logout
\* change the session; a call of request, of login or of logout, and the
\* completion of any send, resolved or rejected, leave it as it was.
C19_SessionWriters ==
  [][~SessionWriter => UNCHANGED session]_vars

\* C19 witness: a request of an authenticated client was resolved with a
\* payload holding another key, user id and user name, and the session is
\* still the one given at construction.
C19_Witness ==
  /\ lastEvent.kind = "complete"
  /\ Last.op = "request" /\ Last.st = "resolved" /\ PayloadComplete(Last.val)
  /\ key = Str(<<"k", "1">>) /\ AllPresent

\* C20: after request() the caller's argument, read through its references,
\* is what the caller passed, and the descriptor the transport received is
\* another object, holding the prefixed url and the headers built for the call.
C20_CallerObjectsUnchanged ==
  [][lastEvent'.kind = "request" =>
     \A options \in RequestInputs :
       Request(options, Undefined) =>
         /\ reqs'[Len(reqs')].options = options
         /\ options.t = "obj" => RequestHeap(options, key).at # "d"
         /\ reqs'[Len(reqs')].sent = SentAfter(options, key)
         /\ Get(reqs'[Len(reqs')].sent, N_url) # Get(options, N_url)
    ]_vars

\* C20 witness: a client holding a key has sent a descriptor with headers of
\* the caller's own; the transport's copy has the key in its headers and the
\* caller's headers have their own value.
C20_Witness ==
  /\ lastEvent.kind = "request"
  /\ \E i \in 1..Len(reqs) :
       /\ JustSent(i)
       /\ Has(CallerHeaders(i), H_session)
       /\ Get(CallerHeaders(i), H_session) = Str(<<"mine">>)
       /\ Get(SentHeaders(i), H_session) = key
       /\ key = Str(<<"k", "1">>)

(***************************************************************************)
(* Properties of a send from call to settlement                            *)
(***************************************************************************)
\* The step was a call that made a send.
SendStep == lastEvent'.kind \in {"request", "login", "logout"}

\* The send the step was about has failed and nothing is left to happen for
\* it: the promise returned for it is rejected.
JustFailed ==
  /\ lastEvent.kind \in {"complete", "continue", "notify"}
  /\ Finished(Last)
  /\ Returned(Last).st = "rejected"

\* C21: the transport has been invoked once for each send made; a call that
\* makes a send invokes it once and no other step invokes it, whatever the
\* transport reported; and the callback of a send that failed is invoked once,
\* with the error the returned promise is rejected with.
C21_OneTransportCallNoRetry ==
  [][/\ transportCalls' = Len(reqs')
     /\ transportCalls' = transportCalls + (IF SendStep THEN 1 ELSE 0)
     /\ (JustFailed' /\ Truthy(Last'.cb)) =>
          Last'.calls = <<[error |-> Returned(Last').val, value |-> Undefined]>>
    ]_vars

\* C21 witness: the transport reported an error for a send made with a
\* callback; the callback has been invoked with the error, and the transport
\* has been invoked once.
C21_Witness ==
  /\ lastEvent.kind = "notify"
  /\ JustFailed /\ Last.why = "transport"
  /\ Len(Last.calls) = 1
  /\ transportCalls = 1

(***************************************************************************)
(* Properties of the endpoint methods                                      *)
(***************************************************************************)
\* The step taken last was a call of an endpoint method with a function in
\* the options position.
FunctionForOptions == lastEvent.kind = "endpoint" /\ lastEvent.args[2].t = "fn"

\* The invocation of a callback with the outcome h of a request.
OutcomeCall(h) ==
  IF h.st = "resolved" THEN [error |-> Null, value |-> h.val]
  ELSE [error |-> h.val, value |-> Undefined]

\* C22: a call of an endpoint method with a function in the options position
\* calls request() with what the call with empty options and that function as
\* callback passes; the descriptor sent has an empty query, and whatever the
\* transport then reports, the next invocation is of that function with the
\* outcome.
C22_FunctionInOptionsPosition ==
  [][FunctionForOptions' =>
     LET m == lastEvent'.method
         first == lastEvent'.args[1]
         fn == lastEvent'.args[2]
         r == reqs'[lastEvent'.id]
     IN /\ EndpointCall(m, first, fn, lastEvent'.args[3]) =
             EndpointCall(m, first, EmptyObj, fn)
        /\ r.cb = fn
        /\ Get(r.sent, N_qs) = EmptyObj
        /\ Get(r.options, N_qs) = EmptyObj
        /\ \A c \in EndpointCompletions :
             LET h == ResponseTable[c]
             IN NextCall([r EXCEPT !.st = h.st, !.val = h.val]) = <<OutcomeCall(h)>>
    ]_vars

\* C22 witness: searchTags was called with a query and a function and nothing
\* after it; the send in flight has the function for its callback and an
\* empty query.
C22_Witness ==
  /\ FunctionForOptions
  /\ lastEvent.method = "searchTags"
  /\ lastEvent.args[3] = Undefined
  /\ reqs[lastEvent.id].st = "pending"
  /\ reqs[lastEvent.id].cb = lastEvent.args[2]
  /\ Get(reqs[lastEvent.id].sent, N_qs) = EmptyObj

(***************************************************************************)
(* Properties of the headers objects                                       *)
(***************************************************************************)
\* Send i is in flight, and the address of the headers object its descriptor
\* refers to.
InFlight(i) == i \in 1..Len(reqs) /\ reqs[i].st = "pending"
HeadersOf(i) == heap[reqs[i].sent.at].f[N_headers].at

\* C23: the headers objects of the sends in flight are distinct objects, none
\* of them the caller's; a write to one headers object, and the making of
\* another send, leave the headers of every other send in flight as they were.
C23_HeadersNotShared ==
  [][/\ \A i, j \in 1..Len(reqs') :
          (InFlight(i)' /\ InFlight(j)' /\ i # j) => HeadersOf(i)' # HeadersOf(j)'
     /\ \A i \in 1..Len(reqs') : InFlight(i)' => HeadersOf(i)'[1] # "h"
     /\ \A j \in 1..Len(reqs) :
          (/\ InFlight(j) /\ InFlight(j)'
           /\ lastEvent'.kind = "write" => lastEvent'.at # HeadersOf(j)) =>
            /\ HeadersOf(j)' = HeadersOf(j)
            /\ heap'[HeadersOf(j)] = heap[HeadersOf(j)]
    ]_vars

\* C23 witness: two sends of descriptors that refer to one headers object of
\* the caller are in flight; the headers of the first have been written to
\* and those of the second have the caller's value.
C23_Witness ==
  /\ lastEvent.kind = "write"
  /\ InFlight(1) /\ InFlight(2)
  /\ reqs[1].options = Ref(<<"d", 0>>) /\ reqs[2].options = Ref(<<"d", 1>>)
  /\ Get(heap[HeadersOf(1)], H_agent) = Written
  /\ Get(heap[HeadersOf(2)], H_agent) = Str(<<"mine">>)

(***************************************************************************)
(* Properties of authorize                                                 *)
(***************************************************************************)
NoSession == <<Undefined, Undefined, Undefined>>

\* C24: a call of authorize(undefined) leaves key, userId and username
\* undefined whatever they were, and a call of it on the state a call of it
\* left changes nothing.
C24_AuthorizeAbsentIdempotent ==
  [][(lastEvent'.kind = "authorize" /\ Authorize(Undefined)) =>
       /\ session' = NoSession
       /\ AllAbsent'
       /\ (lastEvent.kind = "authorize" /\ session = NoSession) => UNCHANGED session
    ]_vars

\* C24 witness: authorize has been called on a client that has made a send,
\* and the three fields are undefined.
C24_Witness ==
  /\ lastEvent.kind = "authorize"
  /\ session = NoSession
  /\ transportCalls > 0

(***************************************************************************)
(* Properties of the callback's invocations                                *)
(***************************************************************************)
\* C25: when nothing is left to happen for a send made with a callback, the
\* callback has been invoked once.
C25_CallbackOnce ==
  JustFinishedWithCallback => Len(Last.calls) = 1

(***************************************************************************)
(* Properties of overlapping logins and logouts                            *)
(***************************************************************************)
\* The session a payload leaves when authorize is run with it.
SessionFrom(v) == <<AndGet(v, N_key), AndGet(v, N_userId), AndGet(v, N_username)>>

\* The step ran the continuation of the resolved request of a login or logout.
Processed == lastEvent.kind = "continue" /\ lastEvent.send.chain = "resolved"

\* C26: the step that processes the successful response of a login or a
\* logout leaves the session that response's payload gives, whichever other
\* sends are in flight or were processed before and in whatever order they
\* were issued; in particular the login processed right after a logout that
\* was issued after it leaves the session of the login's payload.
C26_LastProcessedWins ==
  [][Processed' =>
       /\ session' = SessionFrom(lastEvent'.send.val)
       /\ (/\ Processed /\ lastEvent.send.op = "logout"
           /\ lastEvent'.send.op = "login" /\ lastEvent'.id < lastEvent.id
           /\ PayloadComplete(lastEvent'.send.val)) => AllPresent'
    ]_vars

\* C26 witness: the login issued first has just been processed, after the
\* send issued second had finished; the client is authenticated with the
\* login's payload.
C26_Witness ==
  /\ Processed /\ Last.op = "login" /\ lastEvent.id = 1
  /\ Len(reqs) > 1 /\ reqs[2] = Retired
  /\ PayloadComplete(Last.val)
  /\ session = SessionFrom(Last.val) /\ AllPresent

(***************************************************************************)
(* Properties of settlement                                                *)
(***************************************************************************)
\* Send i has been made and its deferred is pending; it is settled.
Pending(i) == i <= Len(reqs) /\ reqs[i].st = "pending"
HasSettled(i) == i <= Len(reqs) /\ reqs[i].st # "pending"

\* C27: the call that makes a send returns with its deferred pending; a
\* pending deferred is settled only by the completion of its send, as resolved
\* or as rejected; a settled one keeps its state and its value until nothing
\* is left to happen for the send; and every pending deferred is eventually
\* settled.
C27_SettlesOnce ==
  /\ [][/\ SendStep => reqs'[lastEvent'.id].st = "pending"
        /\ \A i \in 1..Len(reqs) :
             /\ (Pending(i) /\ ~Pending(i)') =>
                  /\ lastEvent'.kind = "complete" /\ lastEvent'.id = i
                  /\ lastEvent'.send.st \in {"resolved", "rejected"}
             /\ reqs[i].st \in {"resolved", "rejected"} =>
                  \/ reqs'[i] = Retired
                  \/ reqs'[i].st = reqs[i].st /\ reqs'[i].val = reqs[i].val
             /\ reqs[i] = Retired => reqs'[i] = Retired
       ]_vars
  /\ \A i \in 1..MaxCallbackCalls : Pending(i) ~> HasSettled(i)

\* C27 witness: the transport has completed a request with a body that does
\* not parse; its deferred is rejected and nothing is left to happen for it.
C27_Witness ==
  /\ lastEvent.kind = "complete" /\ Last.op = "request"
  /\ Last.st = "rejected" /\ Last.why = "parse"
  /\ reqs[lastEvent.id] = Retired
====
